---- MODULE Spec2Model ----
(***************************************************************************)
(* JSONWriter of include/jsonserializer.h: a vector of WriterEntry         *)
(* (atomic flag + writer function), a binary semaphore and one invoker     *)
(* task.  RegisterWriter appends an entry, FlagWriter marks an entry and   *)
(* gives the semaphore, WriterInvokerEntryPoint takes the semaphore and    *)
(* runs every flagged writer.                                              *)
(*                                                                         *)
(* The class has no lock.  std::vector::emplace_back reallocates when      *)
(* size() = capacity(): the entries are move-constructed into new storage, *)
(* the old storage is destroyed and freed, and only then do the vector's   *)
(* pointers change.  A reference or iterator into the old storage dangles  *)
(* from the free on; what a dangling access yields is a nondeterministic   *)
(* choice here (a flag read gives either value, a call runs the stale copy *)
(* of the writer or brings the task down, a store is lost).                *)
(***************************************************************************)
EXTENDS Integers, Sequences, FiniteSets, TLC

\* Bounds of the model.
MaxWriters == 4      \* registrations made in one run
NumCallers == 1      \* threads calling FlagWriter

\* xTaskCreatePinnedToCore is called once, in the constructor.
NumWorkerTasks_two == 1 + 1
NumWorkerTasks == 1

Callers == 1..NumCallers
Tasks   == 1..NumWorkerTasks
\* The std::function objects passed to RegisterWriter: every call passes its
\* own, named by the ordinal of the call, so that entries mixed up show.
Actions == 1..MaxWriters
\* size_t index arguments of FlagWriter; MaxWriters is never a valid index.
Indexes == 0..MaxWriters

VARIABLES
    writers,          \* std::vector<WriterEntry>: the storage the vector points to
    capacity,         \* writers.capacity()
    writerSemaphore,  \* binary semaphore: 0 (empty) or 1 (given)
    rpc, rarg, rbuf,  \* the thread in RegisterWriter: position, argument, new storage
    fpc, farg,        \* the threads in FlagWriter: position, index argument
    wpc, wpos, wend,  \* invoker task: position, range-for iterator, end iterator
    wstale,           \* invoker task: its iterators point into freed storage
    wact, wres,       \* invoker task: the writer it called, and how that came back
    watch,            \* the index the history below is kept for (any index, fixed in a run)
    issued,           \* history: <<returned index, writer passed>> per RegisterWriter
    scanLog,          \* history: indexes whose writer was started in the current scan
    failS,            \* history: a writer reported failure in the current scan
    unserved,         \* history: watch was flagged and no run of its writer began since
    owed,             \* history: watch was flagged while its writer was running
    idleOwed,         \* history: watch was flagged from Idle, no RegisterWriter since
    marked,           \* history: a FlagWriter(watch) call has stored the flag
    failedW,          \* history: the last run of watch's writer failed, no FlagWriter(watch) since
    signalled,        \* history: a FlagWriter call has given the semaphore
    due,              \* history: unserved, as it was when the current scan began
    pend,             \* history: the flag of watch, as it was when the current scan began
    coal,             \* history: a FlagWriter(watch) call ran entirely in the current sleep
    inWait,           \* history: the caller's call on watch began in the current sleep
    overlap,          \* history: a RegisterWriter call overlapped the caller's call on watch
    cpc,              \* converters: position of the conversion under way ("off": none)
    color, other,     \* Converter<CRGB>: the colour converted, and a colour to compare with
    json,             \* the JsonVariant a converter writes to or reads from
    back,             \* Converter<CRGB>::fromJson: the colour returned
    palette,          \* Converter<CRGBPalette16>::toJson: the palette converted
    accepted,         \* Converter<CRGBPalette16>::checkJson: what it returned
    colors,           \* Converter<CRGBPalette16>::fromJson: CRGB colors[16]
    colorIndex,       \* Converter<CRGBPalette16>::fromJson: int colorIndex
    oob,              \* history: fromJson stored outside colors[]
    pal               \* Converter<CRGBPalette16>::fromJson: the palette returned

vars == <<writers, capacity, writerSemaphore, rpc, rarg, rbuf, fpc, farg,
          wpc, wpos, wend, wstale, wact, wres, watch, issued, scanLog, failS,
          unserved, owed, idleOwed, marked, failedW, signalled, due, pend, coal, inWait, overlap,
          cpc, color, other, json, back, palette, accepted, colors, colorIndex, oob, pal>>

regVars  == <<rpc, rarg, rbuf>>
flagVars == <<fpc, farg>>
taskVars == <<wpc, wpos, wend, wstale, wact, wres>>
markVars == <<unserved, owed, idleOwed, marked, failedW>>
scanVars == <<scanLog, failS, due, pend, coal>>
convVars == <<cpc, color, other, json, back, palette, accepted, colors, colorIndex, oob, pal>>
fixedVars == <<watch, convVars>>
histVars == <<fixedVars, signalled, issued, markVars, scanVars, inWait, overlap>>

----------------------------------------------------------------------------
\* WriterEntry(std::function<void()> writer): flag = false, writer(writer).
WriterEntry(w) == [flag |-> FALSE, writer |-> w]

\* WriterEntry(WriterEntry&& entry) : WriterEntry(entry.writer): the flag of
\* the moved-from entry is not carried over.
MoveEntry(entry) == WriterEntry(entry.writer)

\* Capacity emplace_back allocates when the vector is full (libstdc++ doubles).
GrowCapacity(n) == IF n = 0 THEN 1 ELSE 2 * n

\* return writers.size() - 1;
ReturnIndex_size(n) == n
ReturnIndex(n) == n - 1

\* if (index >= writers.size()) return;
ValidIndex_inclusive(index, size) == ~(index > size)
ValidIndex(index, size) == ~(index >= size)

\* xSemaphoreGive on a binary semaphore: a give on a given semaphore fails
\* and leaves it given.
SemaphoreGive_dropped(s) == s
SemaphoreGive(s) == IF s < 1 THEN s + 1 ELSE s

\* xSemaphoreTake(writerSemaphore, portMAX_DELAY): whether the call comes
\* back, the semaphore's count being s.
SemaphoreTaken_poll(s) == TRUE
SemaphoreTaken(s) == s >= 1

\* for (auto &entry : pObj->writers): position visited at the k-th iteration
\* of a range of n entries.
ScanOrder_reverse(k, n) == n + 1 - k
ScanOrder(k, n) == k

\* if (entry.flag) { entry.writer(); ... }: whether the writer is called,
\* the flag having been read as f.
ShouldRun_always(f) == TRUE
ShouldRun(f) == f

\* Storage position (1-based) of vector index i (0-based).
Pos(i) == i + 1

Range(s) == {s[k] : k \in DOMAIN s}

Sleeping == \A t \in Tasks : wpc[t] = "wait"
Registering == rpc # "idle"
\* The vector's pointers refer to storage that emplace_back has already freed.
Freed == rpc = "freed"
\* Task t is inside the range-for.
InScan(t) == wpc[t] \in {"scan", "run", "clear"}
\* The entry task t is at.
Cur(t) == ScanOrder(wpos[t], wend[t])
\* Task t's entry reference points into freed storage.
Dangling(t) == wstale[t] \/ Freed
\* Some task is between starting the writer of index i and clearing its flag.
Running(i) == \E t \in Tasks : wpc[t] \in {"run", "clear"} /\ Cur(t) = Pos(i)
\* The flag of index i as the vector shows it.
FlagOf(i) == Pos(i) \in DOMAIN writers /\ writers[Pos(i)].flag

----------------------------------------------------------------------------
\* The ArduinoJson converters of CRGB and CRGBPalette16.

\* Bound of the model: the longest JSON array handed to a converter.
MaxEntries == 17

\* CRGB colors[16]; and size() == 16 in checkJson.
PaletteSize == 16
\* AllocatedJsonDocument doc(384): bytes of the document's pool.
DocBytes == 384
\* Bytes of the pool one array element takes (on the 32-bit target).
SlotBytes == 16

Shl(x, n) == x * 2^n
RECURSIVE BitOr(_, _)
BitOr(x, y) ==
    IF x = 0 THEN y
    ELSE IF y = 0 THEN x
    ELSE (IF x % 2 = 1 \/ y % 2 = 1 THEN 1 ELSE 0) + 2 * BitOr(x \div 2, y \div 2)
\* (uint32_t) of an int: the value itself for the values that occur here,
\* which are at least 0 and, the channels being uint8_t, below 2^24.
UInt32(x) == IF x >= 0 THEN x ELSE x + (2^31 - 1) + (2^31 - 1) + 2

\* A JsonVariant: an unsigned integer, an array of variants, or something else.
UIntValue(n) == [kind |-> "uint", v |-> n, items |-> <<>>]
ArrayValue(s) == [kind |-> "array", v |-> 0, items |-> s]
OtherValue(k) == [kind |-> k, v |-> 0, items |-> <<>>]
\* src.is<uint32_t>() and src.as<uint32_t>(): 0 for what is no uint32_t.
\* The unsigned integers of the model are all below 2^31.
IsUInt32(src) == src.kind = "uint" /\ src.v >= 0
AsUInt32(src) == IF IsUInt32(src) THEN src.v ELSE 0
\* src.as<JsonArrayConst>(): the elements; none for what is no array.
AsArray(src) == IF src.kind = "array" THEN src.items ELSE <<>>

\* CRGB(uint32_t colorcode): r, g, b are bits 16..23, 8..15, 0..7 of the code.
CRGBOfCode(code) ==
    [r |-> (code \div 2^16) % 2^8, g |-> (code \div 2^8) % 2^8, b |-> code % 2^8]

\* Converter<CRGB>::toJson:
\* dst.set((uint32_t)((color.r << 16) | (color.g << 8) | color.b));
CRGB_toJson_shift(c) == UIntValue(UInt32(BitOr(BitOr(Shl(c.r, 8), Shl(c.g, 8)), c.b)))
CRGB_toJson(c) == UIntValue(UInt32(BitOr(BitOr(Shl(c.r, 16), Shl(c.g, 8)), c.b)))

\* Converter<CRGB>::fromJson: return CRGB(src.as<uint32_t>());
CRGB_fromJson(src) == CRGBOfCode(AsUInt32(src))

\* Converter<CRGB>::checkJson: return src.is<uint32_t>();
CRGB_checkJson(src) == IsUInt32(src)

\* colors.add(color) on an array of a document with room for `slots`
\* elements: without room the element is not added.
ArrayAdd(items, c, slots) ==
    IF Len(items) < slots THEN Append(items, CRGB_toJson(c)) ELSE items

\* Converter<CRGBPalette16>::toJson: for (auto& color: palette.entries)
\* colors.add(color); return dst.set(doc);
RECURSIVE AddEntries(_, _, _, _)
AddEntries(items, entries, k, slots) ==
    IF k > Len(entries) THEN items
    ELSE AddEntries(ArrayAdd(items, entries[k], slots), entries, k + 1, slots)
CRGBPalette16_toJson(entries) ==
    ArrayValue(AddEntries(<<>>, entries, 1, DocBytes \div SlotBytes))

\* Converter<CRGBPalette16>::checkJson:
\* return src.is<JsonArrayConst>() && src.as<JsonArrayConst>().size() == 16;
CRGBPalette16_checkJson_atLeast(src) ==
    src.kind = "array" /\ Len(src.items) >= PaletteSize
CRGBPalette16_checkJson(src) ==
    src.kind = "array" /\ Len(src.items) = PaletteSize

\* A default-constructed CRGB: its channels hold whatever was in memory.
Indeterminate == [r |-> -1, g |-> -1, b |-> -1]

\* Inputs of the converters.
Channels == {0, 1, 2, 127, 128, 254, 255}
Colors == [r : Channels, g : Channels, b : Channels]
ProbeColors == [r : {0, 1, 255}, g : {0, 1, 255}, b : {0, 1, 255}]
Codes == {0, 2^8 - 8, 2^16 - 8, 2^24 - 8}
Strides == {0, 1, 2^8 + 1, 2^16 + 2^8 + 1}
CodeAt(seed, stride, k) == (seed + (k - 1) * stride) % 2^24
Palettes ==
    {[k \in 1..PaletteSize |-> CRGBOfCode(CodeAt(seed, stride, k))] :
        seed \in Codes, stride \in Strides}
Documents ==
    {ArrayValue([k \in 1..n |-> UIntValue(CodeAt(seed, stride, k))]) :
        n \in 0..MaxEntries, seed \in Codes, stride \in {1, 2^8 + 1}}
    \cup {ArrayValue([k \in 1..n |-> OtherValue("null")]) : n \in {1, PaletteSize}}
    \cup {OtherValue("null"), OtherValue("string"), UIntValue(2^24 - 1)}
\* What an entry of colors[] that was never stored to may hold.
Garbage == {CRGBOfCode(0), CRGBOfCode(2^24 - 1)}

NoColor == CRGBOfCode(0)
ConvOff ==
    /\ cpc = "off"
    /\ color = NoColor /\ other = NoColor /\ back = NoColor
    /\ json = OtherValue("null")
    /\ palette = <<>> /\ pal = <<>> /\ colors = <<>>
    /\ accepted = FALSE /\ colorIndex = 0 /\ oob = FALSE

\* The JSONWriter after its constructor.
Constructed ==
    /\ writers = <<>>
    /\ capacity = 0
    /\ writerSemaphore = 0      \* xSemaphoreTake(writerSemaphore, 0) in the constructor
    /\ rpc = "idle" /\ rarg = 0 /\ rbuf = <<>>
    /\ fpc = [c \in Callers |-> "idle"]
    /\ farg = [c \in Callers |-> 0]
    /\ wpc = [t \in Tasks |-> "wait"]
    /\ wpos = [t \in Tasks |-> 1]
    /\ wend = [t \in Tasks |-> 0]
    /\ wstale = [t \in Tasks |-> FALSE]
    /\ wact = [t \in Tasks |-> 0]
    /\ wres = [t \in Tasks |-> "none"]
    /\ issued = <<>>
    /\ scanLog = [t \in Tasks |-> <<>>]
    /\ failS = [t \in Tasks |-> FALSE]
    /\ unserved = FALSE
    /\ owed = FALSE
    /\ idleOwed = FALSE
    /\ marked = FALSE
    /\ failedW = FALSE
    /\ signalled = FALSE
    /\ due = FALSE
    /\ pend = FALSE
    /\ coal = FALSE
    /\ inWait = [c \in Callers |-> FALSE]
    /\ overlap = [c \in Callers |-> FALSE]

Init ==
    /\ Constructed
    /\ watch \in 0..(MaxWriters - 1)
    /\ ConvOff

----------------------------------------------------------------------------
\* size_t RegisterWriter(std::function<void()> writer)

\* The call is entered with its argument.
RegisterCall(a) ==
    /\ rpc = "idle"
    /\ a = Len(issued) + 1
    /\ Len(writers) < MaxWriters
    /\ rpc' = "emplace"
    /\ rarg' = a
    /\ overlap' = [c \in Callers |->
                     overlap[c] \/ (fpc[c] \in {"store", "give"} /\ farg[c] = watch)]
    /\ idleOwed' = FALSE
    /\ UNCHANGED <<writers, capacity, writerSemaphore, rbuf, flagVars, taskVars,
                   fixedVars, signalled, issued, unserved, owed, marked, failedW,
                   scanVars, inWait>>

\* writers.emplace_back(writer) with room left: the entry is constructed in
\* place and the size grows by one.
EmplaceInPlace ==
    /\ rpc = "emplace"
    /\ Len(writers) < capacity
    /\ writers' = Append(writers, WriterEntry(rarg))
    /\ rpc' = "size"
    /\ UNCHANGED <<capacity, writerSemaphore, rarg, rbuf, flagVars, taskVars, histVars>>

\* writers.emplace_back(writer) on a full vector, first part: new storage is
\* allocated, the new entry constructed in it and the old entries moved over.
EmplaceMove ==
    /\ rpc = "emplace"
    /\ Len(writers) = capacity
    /\ rbuf' = [p \in 1..(Len(writers) + 1) |->
                   IF p <= Len(writers) THEN MoveEntry(writers[p])
                                        ELSE WriterEntry(rarg)]
    /\ rpc' = "moved"
    /\ UNCHANGED <<writers, capacity, writerSemaphore, rarg, flagVars, taskVars, histVars>>

\* second part: the old entries are destroyed and the old storage is freed;
\* the vector still points to it.
EmplaceFree ==
    /\ rpc = "moved"
    /\ rpc' = "freed"
    /\ UNCHANGED <<writers, capacity, writerSemaphore, rarg, rbuf, flagVars, taskVars,
                   histVars>>

\* third part: the vector's pointers are set to the new storage.
EmplaceSwap ==
    /\ rpc = "freed"
    /\ writers' = rbuf
    /\ capacity' = GrowCapacity(capacity)
    /\ rbuf' = <<>>
    /\ rpc' = "size"
    /\ wstale' = [t \in Tasks |-> wstale[t] \/ InScan(t)]
    /\ UNCHANGED <<writerSemaphore, rarg, flagVars, wpc, wpos, wend, wact, wres, histVars>>

\* return writers.size() - 1;
RegisterReturn ==
    /\ rpc = "size"
    /\ issued' = Append(issued, <<ReturnIndex(Len(writers)), rarg>>)
    /\ rpc' = "idle"
    /\ rarg' = 0
    /\ UNCHANGED <<writers, capacity, writerSemaphore, rbuf, flagVars, taskVars,
                   fixedVars, signalled, markVars, scanVars, inWait, overlap>>

----------------------------------------------------------------------------
\* void FlagWriter(size_t index)

\* if (index >= writers.size()) return;
FlagCall(c, index) ==
    /\ fpc[c] = "idle"
    /\ farg' = [farg EXCEPT ![c] = index]
    /\ fpc' = [fpc EXCEPT ![c] = IF ValidIndex(index, Len(writers)) THEN "store"
                                                                     ELSE "ignored"]
    /\ inWait' = [inWait EXCEPT ![c] = Sleeping /\ index = watch]
    /\ overlap' = [overlap EXCEPT ![c] = Registering /\ index = watch]
    /\ UNCHANGED <<writers, capacity, writerSemaphore, regVars, taskVars,
                   fixedVars, signalled, issued, markVars, scanVars>>

\* writers[index].flag = true;  A store through the vector's pointers while
\* they refer to freed storage (or past the end) is lost.
FlagStore(c) ==
    /\ fpc[c] = "store"
    /\ LET i == farg[c]
           hit == ~Freed /\ Pos(i) \in DOMAIN writers
       IN  /\ writers' = IF hit THEN [writers EXCEPT ![Pos(i)].flag = TRUE] ELSE writers
           /\ IF i = watch
              THEN /\ unserved' = TRUE
                   /\ marked' = TRUE
                   /\ failedW' = FALSE
                   /\ owed' = (owed \/ Running(i))
                   /\ idleOwed' = (idleOwed \/
                                     (hit /\ ~Registering /\ ~FlagOf(i) /\ ~Running(i)))
              ELSE UNCHANGED markVars
    /\ fpc' = [fpc EXCEPT ![c] = "give"]
    /\ UNCHANGED <<capacity, writerSemaphore, regVars, farg, taskVars,
                   fixedVars, signalled, issued, scanVars, inWait, overlap>>

\* xSemaphoreGive(writerSemaphore);
FlagGive(c) ==
    /\ fpc[c] = "give"
    /\ writerSemaphore' = SemaphoreGive(writerSemaphore)
    /\ fpc' = [fpc EXCEPT ![c] = "done"]
    /\ signalled' = TRUE
    /\ coal' = (coal \/ (inWait[c] /\ Sleeping))
    /\ UNCHANGED <<writers, capacity, regVars, farg, taskVars,
                   fixedVars, issued, markVars, scanLog, failS, due, pend, inWait, overlap>>

\* The caller goes on after a call that returned.
FlagReturn(c) ==
    /\ fpc[c] \in {"done", "ignored"}
    /\ fpc' = [fpc EXCEPT ![c] = "idle"]
    /\ farg' = [farg EXCEPT ![c] = 0]
    /\ inWait' = [inWait EXCEPT ![c] = FALSE]
    /\ overlap' = [overlap EXCEPT ![c] = FALSE]
    /\ UNCHANGED <<writers, capacity, writerSemaphore, regVars, taskVars,
                   fixedVars, signalled, issued, markVars, scanVars>>

----------------------------------------------------------------------------
\* static void WriterInvokerEntryPoint(void * pv)

\* xSemaphoreTake(pObj->writerSemaphore, portMAX_DELAY); then the range-for
\* takes begin() and end() of the vector once.
Take(t) ==
    /\ wpc[t] = "wait"
    /\ SemaphoreTaken(writerSemaphore)
    /\ writerSemaphore' = IF writerSemaphore >= 1 THEN writerSemaphore - 1 ELSE 0
    /\ wpc' = [wpc EXCEPT ![t] = "scan"]
    /\ wpos' = [wpos EXCEPT ![t] = 1]
    /\ wend' = [wend EXCEPT ![t] = Len(writers)]
    /\ due' = unserved
    /\ pend' = FlagOf(watch)
    /\ inWait' = [c \in Callers |-> FALSE]
    /\ UNCHANGED <<writers, capacity, regVars, flagVars, wstale, wact, wres,
                   fixedVars, signalled, issued, markVars, scanLog, failS, coal, overlap>>

\* if (entry.flag) entry.writer();  with the flag read as f.  Through a
\* dangling reference the read gives either value, and the call runs the
\* stale copy of the writer (crash = FALSE) or brings the task down.
TestFlag(t, f, crash) ==
    /\ wpc[t] = "scan"
    /\ wpos[t] <= wend[t]
    /\ Dangling(t) \/ (f = writers[Cur(t)].flag /\ ~crash)
    /\ ShouldRun(f) \/ ~crash
    /\ IF ShouldRun(f) /\ crash
       THEN /\ wpc' = [wpc EXCEPT ![t] = "crashed"]
            /\ UNCHANGED <<wpos, wact, scanLog, markVars>>
       ELSE IF ShouldRun(f)
       THEN /\ wpc' = [wpc EXCEPT ![t] = "run"]
            /\ wact' = [wact EXCEPT ![t] = writers[Cur(t)].writer]
            /\ scanLog' = [scanLog EXCEPT ![t] = Append(@, Cur(t) - 1)]
            /\ IF Cur(t) = Pos(watch)
               THEN /\ unserved' = FALSE /\ owed' = FALSE /\ idleOwed' = FALSE
                    /\ failedW' = FALSE
                    /\ UNCHANGED marked
               ELSE UNCHANGED markVars
            /\ wpos' = wpos
       ELSE /\ wpos' = [wpos EXCEPT ![t] = @ + 1]
            /\ UNCHANGED <<wpc, wact, scanLog, markVars>>
    /\ UNCHANGED <<writers, capacity, writerSemaphore, regVars, flagVars, wend, wstale,
                   wres, fixedVars, signalled, issued, failS, due, pend, coal, inWait, overlap>>

\* entry.writer() comes back: it returns ("ok", or "failed" when the writer
\* could not do its work and logged that), or it throws; nothing in the loop
\* catches, so a throw ends the task.
WriterDone(t, outcome) ==
    /\ wpc[t] = "run"
    /\ IF outcome = "throws"
       THEN /\ wpc' = [wpc EXCEPT ![t] = "terminated"]
            /\ UNCHANGED <<wres, failS, failedW>>
       ELSE /\ wpc' = [wpc EXCEPT ![t] = "clear"]
            /\ wres' = [wres EXCEPT ![t] = outcome]
            /\ failS' = [failS EXCEPT ![t] = @ \/ outcome = "failed"]
            /\ failedW' = IF Cur(t) = Pos(watch) THEN outcome = "failed" ELSE failedW
    /\ UNCHANGED <<writers, capacity, writerSemaphore, regVars, flagVars, wpos, wend,
                   wstale, wact, fixedVars, signalled, issued, unserved, owed, idleOwed,
                   marked, scanLog, due, pend, coal, inWait, overlap>>

\* entry.flag = false;  and the iterator moves on.  Through a dangling
\* reference the store goes to freed storage.
ClearFlag(t) ==
    /\ wpc[t] = "clear"
    /\ writers' = IF Dangling(t) THEN writers
                                 ELSE [writers EXCEPT ![Cur(t)].flag = FALSE]
    /\ wpc' = [wpc EXCEPT ![t] = "scan"]
    /\ wpos' = [wpos EXCEPT ![t] = @ + 1]
    /\ wact' = [wact EXCEPT ![t] = 0]
    /\ wres' = [wres EXCEPT ![t] = "none"]
    /\ UNCHANGED <<capacity, writerSemaphore, regVars, flagVars, wend, wstale, histVars>>

\* The range-for is over; back to the top of for(;;).
EndScan(t) ==
    /\ wpc[t] = "scan"
    /\ wpos[t] > wend[t]
    /\ wpc' = [wpc EXCEPT ![t] = "wait"]
    /\ wpos' = [wpos EXCEPT ![t] = 1]
    /\ wend' = [wend EXCEPT ![t] = 0]
    /\ wstale' = [wstale EXCEPT ![t] = FALSE]
    /\ scanLog' = [scanLog EXCEPT ![t] = <<>>]
    /\ failS' = [failS EXCEPT ![t] = FALSE]
    /\ due' = FALSE
    /\ pend' = FALSE
    /\ coal' = FALSE
    /\ UNCHANGED <<writers, capacity, writerSemaphore, regVars, flagVars, wact, wres,
                   fixedVars, signalled, issued, markVars, inWait, overlap>>

----------------------------------------------------------------------------
\* The converters, applied to inputs; the JSONWriter takes no part.

coordVars == <<writers, capacity, writerSemaphore, regVars, flagVars, taskVars,
               watch, signalled, issued, markVars, scanVars, inWait, overlap>>

ConvInit ==
    /\ Constructed
    /\ watch = 0
    /\ back = NoColor /\ pal = <<>> /\ colors = <<>>
    /\ accepted = FALSE /\ colorIndex = 0 /\ oob = FALSE
    /\ \/ /\ cpc = "color.toJson"
          /\ color \in Colors /\ other \in ProbeColors
          /\ json = OtherValue("null") /\ palette = <<>>
       \/ /\ cpc = "palette.toJson"
          /\ palette \in Palettes
          /\ json = OtherValue("null") /\ color = NoColor /\ other = NoColor
       \/ /\ cpc = "palette.checkJson"
          /\ json \in Documents
          /\ palette = <<>> /\ color = NoColor /\ other = NoColor

\* Converter<CRGB>::toJson(color, dst)
ColorToJson ==
    /\ cpc = "color.toJson"
    /\ json' = CRGB_toJson(color)
    /\ cpc' = "color.checkJson"
    /\ UNCHANGED <<color, other, back, palette, accepted, colors, colorIndex, oob, pal,
                   coordVars>>

\* Converter<CRGB>::checkJson(src)
ColorCheckJson ==
    /\ cpc = "color.checkJson"
    /\ accepted' = CRGB_checkJson(json)
    /\ cpc' = "color.fromJson"
    /\ UNCHANGED <<color, other, json, back, palette, colors, colorIndex, oob, pal,
                   coordVars>>

\* Converter<CRGB>::fromJson(src)
ColorFromJson ==
    /\ cpc = "color.fromJson"
    /\ back' = CRGB_fromJson(json)
    /\ cpc' = "color.done"
    /\ UNCHANGED <<color, other, json, palette, accepted, colors, colorIndex, oob, pal,
                   coordVars>>

\* Converter<CRGBPalette16>::toJson(palette, dst)
PaletteToJson ==
    /\ cpc = "palette.toJson"
    /\ json' = CRGBPalette16_toJson(palette)
    /\ cpc' = "palette.checkJson"
    /\ UNCHANGED <<color, other, back, palette, accepted, colors, colorIndex, oob, pal,
                   coordVars>>

\* Converter<CRGBPalette16>::checkJson(src)
PaletteCheckJson ==
    /\ cpc = "palette.checkJson"
    /\ accepted' = CRGBPalette16_checkJson(json)
    /\ cpc' = "palette.fromJson"
    /\ UNCHANGED <<color, other, json, back, palette, colors, colorIndex, oob, pal,
                   coordVars>>

\* Converter<CRGBPalette16>::fromJson(src), which as<CRGBPalette16>() calls
\* whatever checkJson says: CRGB colors[16]; int colorIndex = 0;
FromJsonBegin ==
    /\ cpc = "palette.fromJson"
    /\ colors' = [k \in 1..PaletteSize |-> Indeterminate]
    /\ colorIndex' = 0
    /\ cpc' = "palette.loop"
    /\ UNCHANGED <<color, other, json, back, palette, accepted, oob, pal, coordVars>>

\* colors[colorIndex++] = value.as<CRGB>();  for the next element of the
\* array.  A store past colors[15] lands in whatever follows the array on
\* the stack: the function goes on, or the task is brought down.
FromJsonStore(crash) ==
    /\ cpc = "palette.loop"
    /\ colorIndex < Len(AsArray(json))
    /\ crash => colorIndex >= PaletteSize
    /\ IF colorIndex < PaletteSize
       THEN /\ colors' = [colors EXCEPT ![colorIndex + 1] =
                             CRGB_fromJson(AsArray(json)[colorIndex + 1])]
            /\ UNCHANGED oob
       ELSE /\ oob' = TRUE
            /\ UNCHANGED colors
    /\ colorIndex' = colorIndex + 1
    /\ cpc' = IF crash THEN "palette.crashed" ELSE cpc
    /\ UNCHANGED <<color, other, json, back, palette, accepted, pal, coordVars>>

\* return CRGBPalette16(colors);  An entry never stored to holds garbage g.
FromJsonReturn(g) ==
    /\ cpc = "palette.loop"
    /\ colorIndex >= Len(AsArray(json))
    /\ pal' = [k \in 1..PaletteSize |-> IF colors[k] = Indeterminate THEN g ELSE colors[k]]
    /\ cpc' = "palette.done"
    /\ UNCHANGED <<color, other, json, back, palette, accepted, colors, colorIndex, oob,
                   coordVars>>

ConvNext == \/ ColorToJson
            \/ ColorCheckJson
            \/ ColorFromJson
            \/ PaletteToJson
            \/ PaletteCheckJson
            \/ FromJsonBegin
            \/ \E crash \in BOOLEAN : FromJsonStore(crash)
            \/ \E g \in Garbage : FromJsonReturn(g)
ConvSpec == ConvInit /\ [][ConvNext]_vars

----------------------------------------------------------------------------
Register == \/ \E a \in Actions : RegisterCall(a)
            \/ EmplaceInPlace
            \/ EmplaceMove
            \/ EmplaceFree
            \/ EmplaceSwap
            \/ RegisterReturn

Flag(c) == \/ \E index \in Indexes : FlagCall(c, index)
           \/ FlagStore(c)
           \/ FlagGive(c)
           \/ FlagReturn(c)

Invoker(t) == \/ Take(t)
              \/ \E f \in BOOLEAN, crash \in BOOLEAN : TestFlag(t, f, crash)
              \/ \E outcome \in {"ok", "failed", "throws"} : WriterDone(t, outcome)
              \/ ClearFlag(t)
              \/ EndScan(t)

Next == \/ Register
        \/ \E c \in Callers : Flag(c)
        \/ \E t \in Tasks : Invoker(t)

Spec == Init /\ [][Next]_vars

----------------------------------------------------------------------------
\* Task t has visited the whole range and is about to leave the range-for.
AtEnd(t) == wpc[t] = "scan" /\ wpos[t] > wend[t]

\* No call is in progress and no task can take a step: the tasks sleep on
\* an empty semaphore (or are gone).  Only a new call changes such a state.
AtRest ==
    /\ rpc = "idle"
    /\ \A c \in Callers : fpc[c] = "idle"
    /\ \A t \in Tasks : \/ wpc[t] = "wait" /\ writerSemaphore = 0
                        \/ wpc[t] \in {"terminated", "crashed"}

\* Number of times index i occurs in the log s.
Times(s, i) == Cardinality({k \in DOMAIN s : s[k] = i})

\* C1: no lost update.  A FlagWriter(H) whose store falls between the start
\* of H's writer and the clearing of H's flag makes H's writer run again on
\* a later wake.  Stated at rest: when the task sleeps on an empty semaphore
\* and no call is in progress, nothing will wake the task, so no such
\* re-flag may still be waiting for its run.
C1_NoLostUpdate ==
    (Sleeping /\ AtRest) => ~owed

\* C2: coalescing.  The semaphore never holds more than one give, and when
\* FlagWriter(H) calls ran start to end while the task slept, the scan that
\* follows runs H's writer exactly once.
C2_Coalescing ==
    /\ writerSemaphore <= 1
    /\ \A t \in Tasks : (AtEnd(t) /\ coal) => Times(scanLog[t], watch) = 1

\* C3: liveness from Idle.  A FlagWriter(H) that found H Idle, with no
\* RegisterWriter call in progress or made afterwards, gets H's writer run.
\* Stated at rest: once no call is in progress and no task can take a
\* step, no such request may still be waiting for its run.
C3_LivenessFromIdle ==
    AtRest => ~idleOwed

\* C4: isolation on failure.  A writer that throws or reports failure does
\* not end the dispatch loop, and in a scan in which a writer failed every
\* index that was pending when the scan began has had its writer run by the
\* end of the scan.
C4_IsolationOnFailure ==
    \A t \in Tasks :
        /\ wpc[t] # "terminated"
        /\ (AtEnd(t) /\ failS[t] /\ pend) => watch \in Range(scanLog[t])

\* C5: index stability.  The k-th RegisterWriter call returns k (from 0), the
\* index stays valid, the entry at that index holds the writer that call
\* passed whatever was registered later, and a run started for the index
\* calls that writer.
C5_IndexStability ==
    /\ \A k \in DOMAIN issued :
          /\ issued[k][1] = k - 1
          /\ k \in DOMAIN writers
          /\ writers[k].writer = issued[k][2]
    /\ \A t \in Tasks :
          (wpc[t] = "run" /\ Cur(t) \in DOMAIN issued) => wact[t] = issued[Cur(t)][2]

\* Index 0 is run after three registrations, two of which moved its entry.
C5_Witness ==
    /\ Len(issued) >= 3
    /\ \E t \in Tasks : wpc[t] = "run" /\ Cur(t) = 1 /\ ~wstale[t]

\* C6: invalid handle safety.  A FlagWriter call whose index is not below
\* the number of entries returns at once, and neither the call nor its
\* return changes a flag, the semaphore, the vector or the invoker task.
C6_InvalidHandleNoOp ==
    [][\A c \in Callers :
        /\ (fpc[c] = "idle" /\ fpc'[c] # "idle" /\ farg'[c] >= Len(writers))
              => /\ fpc'[c] = "ignored"
                 /\ UNCHANGED <<writers, capacity, writerSemaphore, regVars, taskVars>>
        /\ (fpc[c] = "ignored" /\ fpc'[c] # "ignored")
              => /\ fpc'[c] = "idle"
                 /\ UNCHANGED <<writers, capacity, writerSemaphore, regVars, taskVars>>
      ]_vars

\* A call with the index one past the last entry has been turned away.
C6_Witness ==
    \E c \in Callers : fpc[c] = "ignored" /\ farg[c] = Len(writers) /\ Len(writers) >= 1

\* C7: ordering within a scan.  The writers started in one scan are started
\* in strictly increasing index order (each after the one before returned).
C7_ScanOrder ==
    \A t \in Tasks : \A p, q \in DOMAIN scanLog[t] :
        p < q => scanLog[t][p] < scanLog[t][q]

\* Two indexes were pending when the task woke and both have been started.
C7_Witness ==
    \E t \in Tasks : Len(scanLog[t]) >= 2 /\ pend /\ watch \in Range(scanLog[t])

\* C8: scan visibility.  A FlagWriter(H) store made before a scan begins,
\* and not yet followed by a run of H's writer, has H's writer run in that
\* scan.
C8_ScanVisibility ==
    \A t \in Tasks : (AtEnd(t) /\ due) => watch \in Range(scanLog[t])

\* A step that reads or writes an entry through storage already freed.
FreedAccess ==
    \/ \E c \in Callers : fpc[c] = "store" /\ fpc'[c] = "give" /\ Freed
    \/ \E t \in Tasks :
          /\ Dangling(t)
          /\ (wpc[t] = "scan" /\ wpos[t] <= wend[t]) \/ wpc[t] = "clear"
          /\ <<wpc[t], wpos[t]>>' # <<wpc[t], wpos[t]>>

\* A FlagWriter(H) call that overlapped a RegisterWriter call has returned,
\* the RegisterWriter call too, H's flag is not set and no run of H's writer
\* began after the store.
LostOverlap ==
    \E c \in Callers :
        fpc[c] = "done" /\ overlap[c] /\ rpc = "idle" /\ ~FlagOf(watch) /\ unserved

\* C9: RegisterWriter concurrent with FlagWriter and the scan is safe.  No
\* step accesses an entry that is not (or no longer) there, and a FlagWriter
\* call that overlapped a RegisterWriter call is not lost.
C9_RegisterFlagSafe ==
    [][~FreedAccess /\ ~LostOverlap']_vars

\* C10: single worker.  At most one writer is executing at any time.
C10_OneWriterAtATime ==
    Cardinality({t \in Tasks : wpc[t] = "run"}) <= 1

\* A writer is executing while a FlagWriter call and a RegisterWriter call
\* are both under way.
C10_Witness ==
    /\ \E t \in Tasks : wpc[t] = "run"
    /\ \E c \in Callers : fpc[c] = "store"
    /\ Registering

\* C11: colour round trip.  Whatever colour (r, g, b) with channels in 0..255
\* toJson packs, the packed value is an integer in 0..2^24-1, fromJson gives
\* back exactly (r, g, b), and another colour that packs to the same integer
\* is the same colour.
C11_ColorRoundTrip ==
    /\ cpc \in {"color.checkJson", "color.fromJson", "color.done"} =>
          /\ json.kind = "uint" /\ json.v \in 0..(2^24 - 1)
          /\ CRGB_toJson(other) = json => other = color
    /\ cpc = "color.done" => back = color
C11_Witness ==
    /\ cpc = "color.done"
    /\ color = [r |-> 255, g |-> 128, b |-> 1]
    /\ back = color
    /\ other # color
\* C12: gradient shape check.  checkJson accepts a document exactly when it
\* is an array of 16 entries (arrays of 15 or 17 entries and documents that
\* are no array are rejected); and a palette of 16 colours put through toJson
\* is accepted and comes back from fromJson with the same 16 colours in the
\* same order.
C12_GradientShapeCheck ==
    /\ cpc \in {"palette.fromJson", "palette.loop", "palette.done", "palette.crashed"} =>
          (accepted <=> (json.kind = "array" /\ Len(json.items) = 16))
    /\ (cpc = "palette.fromJson" /\ palette # <<>>) => accepted
    /\ (cpc = "palette.done" /\ palette # <<>>) => pal = palette
C12_Witness ==
    /\ cpc = "palette.done"
    /\ Len(palette) = 16
    /\ pal = palette
    /\ accepted
    /\ \A k \in 1..15 : palette[k] # palette[k + 1]
\* C14: gradient deserialization is bounds-safe.  For an array of any length
\* fromJson stores to colors[0..15] only and reads only entries the array
\* has; an array of another length than 16 makes the conversion fail, it
\* does not make it store or read out of bounds.
C14_FromJsonBoundsSafe ==
    /\ ~oob
    /\ cpc # "palette.crashed"
    /\ cpc = "palette.loop" => colorIndex <= Len(AsArray(json))
    /\ (cpc = "palette.loop" /\ colorIndex < Len(AsArray(json))) => colorIndex < 16
\* The entries as RegisterWriter will leave them: the new storage once
\* emplace_back has built it, the vector's storage otherwise.
NewStorage == IF rpc \in {"moved", "freed"} THEN rbuf ELSE writers

\* C13: registration preserves pending requests.  A step of RegisterWriter
\* leaves the flag and the writer of every entry registered before unchanged;
\* all it does to the entries is append one whose flag is false.  So an
\* index flagged before the call is still flagged after it.
C13_RegisterPreservesPending ==
    [][rpc' # rpc =>
          /\ \A p \in DOMAIN NewStorage :
                p \in DOMAIN NewStorage' /\ NewStorage'[p] = NewStorage[p]
          /\ NewStorage' # NewStorage =>
                /\ Len(NewStorage') = Len(NewStorage) + 1
                /\ ~NewStorage'[Len(NewStorage')].flag
      ]_vars
\* C15: clear-after-run ordering.  The loop calls a writer only when it has
\* read the entry's flag as true, and clears the flag only after the writer
\* has returned.  Hence, no RegisterWriter call having run while the scan
\* was under way or running now, the flag of an index is true whenever the
\* task is executing its writer, and stays true until the step that follows
\* the writer's return.
C15_ClearAfterRun ==
    [][\A t \in Tasks :
          /\ (wpc'[t] = "run" /\ ~Registering' /\ ~wstale'[t]) => writers'[Cur(t)'].flag
          /\ (wpc[t] # "run" /\ wpc'[t] = "run") => wpc[t] = "scan"
          /\ (/\ ~Dangling(t) /\ InScan(t) /\ rpc' = rpc
              /\ Cur(t) \in DOMAIN writers /\ writers[Cur(t)].flag
              /\ ~writers'[Cur(t)].flag) => (wpc[t] = "clear" /\ wres[t] \in {"ok", "failed"})
      ]_vars
C15_Witness ==
    \E t \in Tasks :
        /\ wpc[t] = "run" /\ ~Registering /\ ~wstale[t]
        /\ Cur(t) = Pos(watch) /\ Cur(t) >= 2
        /\ writers[Cur(t)].flag
        /\ \E c \in Callers : fpc[c] = "give" /\ farg[c] = watch
\* C16: no execution without a mark.  The writer of an index is started at
\* most as often as FlagWriter calls have set its flag; in particular the
\* writer of an index that no FlagWriter call has flagged is never running.
C16_NoRunWithoutMark ==
    \A t \in Tasks : (wpc[t] = "run" /\ Cur(t) = Pos(watch)) => marked

\* No FlagWriter and no RegisterWriter call is in progress.
NoCall == rpc = "idle" /\ \A c \in Callers : fpc[c] \in {"idle", "done", "ignored"}

\* C17: quiescence.  Whenever the task is blocked on the semaphore, the
\* semaphore is not given and no FlagWriter or RegisterWriter call is in
\* progress, no entry has its flag set.
C17_Quiescence ==
    (Sleeping /\ writerSemaphore = 0 /\ NoCall) => \A p \in DOMAIN writers : ~writers[p].flag
C17_Witness ==
    /\ Sleeping /\ writerSemaphore = 0 /\ NoCall
    /\ Len(writers) >= 3
    /\ marked /\ ~unserved /\ ~failedW
    /\ \A t \in Tasks : wact[t] = 0

\* C18: no retry of a failed action.  When a writer reports failure its flag
\* is cleared by the step that follows, just as after a success, and the
\* writer is not started again on a later scan unless FlagWriter is called
\* for its index again.
C18_NoRetry ==
    [][\A t \in Tasks :
          /\ (/\ wpc[t] = "clear" /\ wres[t] = "failed" /\ wpc'[t] # "clear"
              /\ ~Dangling(t)) => (rpc' = rpc /\ ~writers'[Cur(t)].flag)
          /\ (wpc[t] = "scan" /\ wpc'[t] = "run" /\ Cur(t) = Pos(watch)) => ~failedW
      ]_vars

\* C19: scans are signal-driven.  After construction the semaphore is not
\* given and the task is blocked, and it stays so until a FlagWriter call on
\* a valid index gives the semaphore; every scan starts by taking the
\* semaphore that such a call gave, so scans started never outnumber those
\* gives; and inside a scan the task can always take its next step: it
\* waits nowhere but at the take.
C19_SignalDriven ==
    [][/\ ~signalled => (writerSemaphore = 0 /\ Sleeping)
       /\ ~signalled' => (writerSemaphore' = 0 /\ Sleeping')
       /\ \A t \in Tasks :
             (wpc[t] = "wait" /\ wpc'[t] # "wait") =>
                 (signalled /\ writerSemaphore = 1 /\ writerSemaphore' = 0 /\ wpc'[t] = "scan")
       /\ writerSemaphore' > writerSemaphore =>
             \E c \in Callers : /\ fpc[c] = "give" /\ fpc'[c] = "done"
                                /\ ValidIndex(farg[c], Len(writers))
       /\ \A t \in Tasks : InScan(t) => ENABLED Invoker(t)
      ]_vars
C19_Witness ==
    /\ signalled /\ writerSemaphore = 1
    /\ \E t \in Tasks : wpc[t] = "scan" /\ wpos[t] >= 2 /\ Len(scanLog[t]) >= 1
    /\ \E c \in Callers : fpc[c] = "done"
====
